---------------------------- MODULE Spec2Model ----------------------------
(***************************************************************************)
(* A model of visidata's canvas.py: the geometry helpers (clipline,        *)
(* iterline), the Plotter pixel grid and the Canvas viewport, cursor,       *)
(* legend and asynchronous render pass.                                     *)
(*                                                                          *)
(* Numbers.  Python's int and float values are modelled as exact rationals  *)
(* <<n, d>> in lowest terms with d > 0; float rounding error is not         *)
(* modelled.  A Python exception ends the handler that raised it: the       *)
(* assignments made before the raise persist, and the exception's name is   *)
(* recorded (field exc).                                                    *)
(***************************************************************************)
EXTENDS Integers, Sequences, FiniteSets, TLC

VARIABLES sheet, threads, hist

vars == <<sheet, threads, hist>>

(***************************************************************************)
(* Exact rational arithmetic                                                *)
(***************************************************************************)
IAbs(n) == IF n < 0 THEN -n ELSE n

RECURSIVE Gcd(_, _)
Gcd(a, b) == IF b = 0 THEN a ELSE Gcd(b, a % b)

\* the rational n/d in lowest terms, d # 0
Q(n, d) ==
    LET s  == IF d < 0 THEN -1 ELSE 1
        nn == s * n
        dd == s * d
        g  == Gcd(IAbs(nn), dd)
    IN  <<nn \div g, dd \div g>>

I(n) == <<n, 1>>

Zero == I(0)

One == I(1)

IsZero(a) == a[1] = 0

Add(a, b) == Q(a[1] * b[2] + b[1] * a[2], a[2] * b[2])

Neg(a) == <<-a[1], a[2]>>

Sub(a, b) == Add(a, Neg(b))

Mul(a, b) == Q(a[1] * b[1], a[2] * b[2])

\* a / b; the caller raises ZeroDivisionError before dividing by zero
Div(a, b) == Q(a[1] * b[2], a[2] * b[1])

Lt(a, b) == a[1] * b[2] < b[1] * a[2]

Le(a, b) == a[1] * b[2] <= b[1] * a[2]

Max(a, b) == IF Lt(a, b) THEN b ELSE a

Min(a, b) == IF Lt(b, a) THEN b ELSE a

Abs(a) == <<IAbs(a[1]), a[2]>>

Floor(a) == a[1] \div a[2]

\* Python 3 round(): to the nearest integer, a tie to the even one
round(a) ==
    LET f == Floor(a)
        r == Sub(a, I(f))
    IN  IF Lt(Add(r, r), One) THEN f
        ELSE IF Lt(One, Add(r, r)) THEN f + 1
        ELSE IF f % 2 = 0 THEN f ELSE f + 1

(***************************************************************************)
(* Point, Box, BoundingBox                                                  *)
(***************************************************************************)
None == [none |-> TRUE]

Point(x, y) == [x |-> x, y |-> y]

Box(x, y, w, h) == [xmin |-> x, ymin |-> y, w |-> w, h |-> h]

xmax(b) == Add(b.xmin, b.w)

ymax(b) == Add(b.ymin, b.h)

xcenter(b) == Add(b.xmin, Div(b.w, I(2)))

ycenter(b) == Add(b.ymin, Div(b.h, I(2)))

center(b) == Point(xcenter(b), ycenter(b))

\* half-open containment, the bounds given
withinBounds(bxmin, bymin, bxmax, bymax, x, y) ==
    /\ Le(bxmin, x)
    /\ Lt(x, bxmax)
    /\ Le(bymin, y)
    /\ Lt(y, bymax)

\* Box.within(x, y)
within(b, x, y) == withinBounds(b.xmin, b.ymin, xmax(b), ymax(b), x, y)

BoundingBox(x1, y1, x2, y2) ==
    Box(Min(x1, x2), Min(y1, y2), Abs(Sub(x2, x1)), Abs(Sub(y2, y1)))

(***************************************************************************)
(* clipline: Liang-Barsky.  The result is None (<<>>) or the clipped        *)
(* segment <<xn1, yn1, xn2, yn2>>.                                          *)
(***************************************************************************)
NoSegment == <<>>

\* the loop over pq, from pair k on, with the early return of a parallel
\* segment outside the box; u = <<u1, u2>>, or NoSegment after that return
RECURSIVE ClipLoop(_, _, _)
ClipLoop(pq, k, u) ==
    IF k > Len(pq) THEN u
    ELSE LET p == pq[k][1]
             q == pq[k][2]
         IN  IF Lt(p, Zero) THEN ClipLoop(pq, k + 1, <<Max(u[1], Div(q, p)), u[2]>>)
             ELSE IF Lt(Zero, p) THEN ClipLoop(pq, k + 1, <<u[1], Min(u[2], Div(q, p))>>)
             ELSE IF Lt(q, Zero) THEN NoSegment
             ELSE ClipLoop(pq, k + 1, u)

\* the end of clipline without its u1 > u2 rejection
ClipResultNoReject(x1, y1, dx, dy, u) ==
    IF u = NoSegment THEN NoSegment
    ELSE <<Add(x1, Mul(dx, u[1])), Add(y1, Mul(dy, u[1])),
           Add(x1, Mul(dx, u[2])), Add(y1, Mul(dy, u[2]))>>

\* the end of clipline: the rejection of u1 > u2 and the clipped endpoints
ClipResult(x1, y1, dx, dy, u) ==
    IF u = NoSegment THEN NoSegment
    ELSE IF Lt(u[2], u[1]) THEN NoSegment
    ELSE <<Add(x1, Mul(dx, u[1])), Add(y1, Mul(dy, u[1])),
           Add(x1, Mul(dx, u[2])), Add(y1, Mul(dy, u[2]))>>

\* the list pq of the four boundary tests
ClipPQ(x1, y1, dx, dy, bxmin, bymin, bxmax, bymax) ==
    << <<Neg(dx), Sub(x1, bxmin)>>,
       <<dx, Sub(bxmax, x1)>>,
       <<Neg(dy), Sub(y1, bymin)>>,
       <<dy, Sub(bymax, y1)>> >>

cliplineOf(x1, y1, dx, dy, bxmin, bymin, bxmax, bymax) ==
    ClipResult(x1, y1, dx, dy,
               ClipLoop(ClipPQ(x1, y1, dx, dy, bxmin, bymin, bxmax, bymax), 1, <<Zero, One>>))

clipline(x1, y1, x2, y2, bxmin, bymin, bxmax, bymax) ==
    cliplineOf(x1, y1, Sub(x2, x1), Sub(y2, y1), bxmin, bymin, bxmax, bymax)

(***************************************************************************)
(* iterline: the samples of the line from (x1, y1) to (x2, y2)              *)
(***************************************************************************)
\* the while loop: x and y are stepped before each yield
RECURSIVE IterLoop(_, _, _, _, _, _)
IterLoop(x, y, i, r, sx, sy) ==
    IF ~Le(I(i), r) THEN <<>>
    ELSE LET nx == Add(x, sx)
             ny == Add(y, sy)
         IN  << <<nx, ny>> >> \o IterLoop(nx, ny, i + 1, r, sx, sy)

iterline(x1, y1, x2, y2) ==
    LET xdiff == Abs(Sub(x2, x1))
        ydiff == Abs(Sub(y2, y1))
        xdir  == IF Le(x1, x2) THEN One ELSE Neg(One)
        ydir  == IF Le(y1, y2) THEN One ELSE Neg(One)
        r     == Max(xdiff, ydiff)
    IN  IF IsZero(r) THEN << <<x1, y1>> >>
        ELSE IterLoop(x1, y1, 0, r,
                      Div(Mul(xdir, xdiff), r), Div(Mul(ydir, ydiff), r))

(***************************************************************************)
(* Bounds of the model and the configuration of the program                 *)
(***************************************************************************)
\* the terminal: vd().windowWidth columns, vd().windowHeight rows
WindowWidth == 17

WindowHeight == 4

\* options.plot_colors: PaletteSize distinct colors, numbered from 1
PaletteSize == 3

Palette == [i \in 1..PaletteSize |-> i]

\* colors['238 blue'], the attribute of a disabled legend entry
DisabledColor == 99

\* options.zoom_incr
zoom_incr == I(2)

aspectRatio == None

leftMarginPixels == 10 * 2

rightMarginPixels == 6 * 2

topMarginPixels == 0

bottomMarginPixels == 2 * 4

NoExc == "none"

(***************************************************************************)
(* Plotter: the pixel grid.  pixels maps <<y, x, attr>> to the list of rows *)
(* plotted there under attr (pixels[y][x][attr]); a key that is absent is   *)
(* an attr the defaultdict of that pixel does not hold yet.                 *)
(***************************************************************************)
NoPixels == <<>>

\* the list index Python uses for self.pixels[i] of a list of length n:
\* a negative i counts from the end; -1 stands for IndexError
PyIndex(i, n) ==
    IF i >= n \/ i < -n THEN -1
    ELSE IF i < 0 THEN i + n ELSE i

\* raise exception e in the running handler, unless one is already pending
Raise(s, e) == IF s.exc = NoExc THEN [s EXCEPT !.exc = e] ELSE s

HasPixel(s, y, x, attr) == <<y, x, attr>> \in DOMAIN s.pixels

RowsAt(s, y, x, attr) == IF HasPixel(s, y, x, attr) THEN s.pixels[<<y, x, attr>>] ELSE <<>>

\* the attrs held by pixels[y][x]
AttrsAt(s, y, x) == {k[3] : k \in {kk \in DOMAIN s.pixels : kk[1] = y /\ kk[2] = x}}

\* Plotter.resetCanvasDimensions followed by Canvas.resetCanvasDimensions
resetCanvasDimensions(s) ==
    LET pw == WindowWidth * 2
        ph == (WindowHeight - 1) * 4
    IN  [s EXCEPT !.plotwidth = pw,
                  !.plotheight = ph,
                  !.pixels = NoPixels,
                  !.plotviewBox = BoundingBox(I(leftMarginPixels), I(topMarginPixels),
                                              I(pw - rightMarginPixels),
                                              I(ph - bottomMarginPixels))]

\* self.pixels[y][x][attr].append(row); x and y are Python ints
plotpixel(s, x, y, attr, row) ==
    IF s.exc # NoExc THEN s
    ELSE LET yi == PyIndex(y, s.plotheight)
             xi == PyIndex(x, s.plotwidth)
             s1 == [s EXCEPT !.access = @ \cup {<<x, y>>}]
         IN  IF yi = -1 \/ xi = -1 THEN Raise(s1, "IndexError")
             ELSE [s1 EXCEPT !.pixels =
                       (<<yi, xi, attr>> :> Append(RowsAt(s, yi, xi, attr), row)) @@ @]

RECURSIVE PlotSamples(_, _, _, _, _)
PlotSamples(s, pts, k, attr, row) ==
    IF k > Len(pts) \/ s.exc # NoExc THEN s
    ELSE PlotSamples(plotpixel(s, round(pts[k][1]), round(pts[k][2]), attr, row),
                     pts, k + 1, attr, row)

plotline(s, x1, y1, x2, y2, attr, row) ==
    PlotSamples(s, iterline(x1, y1, x2, y2), 1, attr, row)

\* Plotter.plotlabel takes (x, y, text, attr)
plotlabel(s, x, y, text, attr) ==
    IF s.exc # NoExc THEN s
    ELSE [s EXCEPT !.labels = Append(@, <<x, y, text, attr>>)]

plotlegend(s, i, txt, attr) == plotlabel(s, s.plotwidth - 30, i * 4, txt, attr)

(***************************************************************************)
(* Canvas: scalers and coordinate transforms.  A division whose divisor is  *)
(* zero raises ZeroDivisionError; the ...OK predicates say that it does not.*)
(***************************************************************************)
xratioOK(s) == ~IsZero(Mul(s.canvasBox.w, s.zoomlevel))

yratioOK(s) == ~IsZero(Mul(s.canvasBox.h, s.zoomlevel))

xratio(s) == Div(s.plotviewBox.w, Mul(s.canvasBox.w, s.zoomlevel))

yratio(s) == Div(s.plotviewBox.h, Mul(s.canvasBox.h, s.zoomlevel))

xScalerOK(s) == xratioOK(s) /\ (aspectRatio # None => yratioOK(s))

yScalerOK(s) == yratioOK(s) /\ (aspectRatio # None => xratioOK(s))

xScaler(s) ==
    IF aspectRatio # None THEN Mul(aspectRatio, Min(xratio(s), yratio(s)))
    ELSE xratio(s)

yScaler(s) ==
    IF aspectRatio # None THEN Min(xratio(s), yratio(s))
    ELSE yratio(s)

\* a division by the scaler itself: the scaler is computed and is not zero
xDivOK(s) == xScalerOK(s) /\ ~IsZero(xScaler(s))

yDivOK(s) == yScalerOK(s) /\ ~IsZero(yScaler(s))

scaleX(s, x) ==
    round(Add(s.plotviewBox.xmin, Mul(Sub(x, s.visibleBox.xmin), xScaler(s))))

scaleY(s, y) ==
    round(Add(s.plotviewBox.ymin, Mul(Sub(y, s.visibleBox.ymin), yScaler(s))))

canvasW(s, plotter_width) == Div(plotter_width, xScaler(s))

canvasH(s, plotter_height) == Div(plotter_height, yScaler(s))

canvasCharOK(s) == ~IsZero(s.plotviewBox.w) /\ ~IsZero(s.plotviewBox.h)

canvasCharWidth(s) == Div(Mul(s.visibleBox.w, I(2)), s.plotviewBox.w)

canvasCharHeight(s) == Div(Mul(s.visibleBox.h, I(4)), s.plotviewBox.h)

plotterMouseX(mouseX) == I(mouseX * 2)

plotterMouseY(mouseY) == I(mouseY * 4)

canvasMouseXY(s, mouseX, mouseY) ==
    Point(Add(s.visibleBox.xmin,
              Div(Sub(plotterMouseX(mouseX), s.plotviewBox.xmin), xScaler(s))),
          Add(s.visibleBox.ymin,
              Div(Sub(plotterMouseY(mouseY), s.plotviewBox.ymin), yScaler(s))))

\* the pixel-space boxes; their corners are Python ints
plotterVisibleBox(s) ==
    BoundingBox(I(scaleX(s, s.visibleBox.xmin)), I(scaleY(s, s.visibleBox.ymin)),
                I(scaleX(s, xmax(s.visibleBox))), I(scaleY(s, ymax(s.visibleBox))))

plotterCursorBox(s) ==
    IF s.cursorBox = None THEN Box(Zero, Zero, Zero, Zero)
    ELSE BoundingBox(I(scaleX(s, s.cursorBox.xmin)), I(scaleY(s, s.cursorBox.ymin)),
                     I(scaleX(s, xmax(s.cursorBox))), I(scaleY(s, ymax(s.cursorBox))))

(***************************************************************************)
(* Canvas: bounds, zoom and pan                                             *)
(***************************************************************************)
refresh(s) == IF s.exc # NoExc THEN s ELSE [s EXCEPT !.needsRefresh = TRUE]

\* min and max of f over the stored primitives, f picking a coordinate
RECURSIVE MinOver(_, _, _)
MinOver(lines, i, j) ==
    LET m == Min(lines[1][i], lines[1][j])
    IN  IF Len(lines) = 1 THEN m ELSE Min(m, MinOver(Tail(lines), i, j))

RECURSIVE MaxOver(_, _, _)
MaxOver(lines, i, j) ==
    LET m == Max(lines[1][i], lines[1][j])
    IN  IF Len(lines) = 1 THEN m ELSE Max(m, MaxOver(Tail(lines), i, j))

\* the legend repaint: key i+1 is bound to toggle attr, and one label per
\* legend entry is appended to the label queue
RECURSIVE LegendLoop(_, _)
LegendLoop(s, i) ==
    IF i >= Len(s.legends) THEN s
    ELSE LET legend == s.legends[i + 1][1]
             attr   == s.legends[i + 1][2]
             shown  == IF attr \in s.disabledAttrs THEN DisabledColor ELSE attr
             s1     == [s EXCEPT !.commands = ((i + 1) :> attr) @@ @]
         IN  LegendLoop(plotlegend(s1, i, ToString(i + 1) \o "." \o legend, shown), i + 1)

plotlegends(s) == IF s.exc # NoExc THEN s ELSE LegendLoop(s, 0)

\* resetBounds, first block: the canvasBox of a canvas that has none
resetCanvasBox(s) ==
    IF s.canvasBox # None THEN s
    ELSE IF s.gridlines # <<>>
      THEN [s EXCEPT !.canvasBox =
               BoundingBox(MinOver(s.gridlines, 1, 3), MinOver(s.gridlines, 2, 4),
                           MaxOver(s.gridlines, 1, 3), MaxOver(s.gridlines, 2, 4))]
    ELSE [s EXCEPT !.canvasBox = Box(Zero, Zero, One, One)]

\* resetBounds, second block: visibleBox is created centered on canvasBox,
\* or its w and h are recomputed
resetVisibleBox(s) ==
    LET w == Div(s.plotviewBox.w, xScaler(s))
        h == Div(s.plotviewBox.h, yScaler(s))
    IN  IF s.visibleBox = None
          THEN IF ~(xDivOK(s) /\ yDivOK(s)) THEN Raise(s, "ZeroDivisionError")
               ELSE [s EXCEPT !.visibleBox =
                        Box(Sub(xcenter(s.canvasBox), Div(w, I(2))),
                            Sub(ycenter(s.canvasBox), Div(h, I(2))), w, h)]
        ELSE IF ~xDivOK(s) THEN Raise(s, "ZeroDivisionError")
        ELSE IF ~yDivOK(s) THEN Raise([s EXCEPT !.visibleBox.w = w], "ZeroDivisionError")
        ELSE [s EXCEPT !.visibleBox.w = w, !.visibleBox.h = h]

\* resetBounds, third block: the cursorBox of a canvas that has none
resetCursorBox(s) ==
    IF s.exc # NoExc \/ s.cursorBox # None THEN s
    ELSE IF ~canvasCharOK(s) THEN Raise(s, "ZeroDivisionError")
    ELSE [s EXCEPT !.cursorBox = Box(s.visibleBox.xmin, s.visibleBox.ymin,
                                     canvasCharWidth(s), canvasCharHeight(s))]

resetBounds(s) ==
    IF s.exc # NoExc THEN s
    ELSE resetCursorBox(resetVisibleBox(resetCanvasBox(s)))

\* setZoom(zoomlevel): zl is None for a call without argument
setZoom(s, zl) ==
    IF s.exc # NoExc THEN s
    ELSE plotlegends(resetBounds(
             IF zl # None /\ ~IsZero(zl.v) THEN [s EXCEPT !.zoomlevel = zl.v] ELSE s))

Some(v) == [v |-> v]

\* fixPoint's second assignment without the refresh
fixPointYClean(s, plotter_y, canvasXY) ==
    IF ~yDivOK(s) THEN Raise(s, "ZeroDivisionError")
    ELSE [s EXCEPT !.visibleBox.ymin =
             Sub(canvasXY.y, canvasH(s, Sub(plotter_y, s.plotviewBox.ymin)))]

\* fixPoint, its second assignment and the refresh
fixPointY(s, plotter_y, canvasXY) ==
    IF ~yDivOK(s) THEN Raise(s, "ZeroDivisionError")
    ELSE refresh([s EXCEPT !.visibleBox.ymin =
                     Sub(canvasXY.y, canvasH(s, Sub(plotter_y, s.plotviewBox.ymin)))])

fixPoint(s, plotter_x, plotter_y, canvasXY) ==
    IF s.exc # NoExc THEN s
    ELSE IF ~xDivOK(s) THEN Raise(s, "ZeroDivisionError")
    ELSE fixPointY([s EXCEPT !.visibleBox.xmin =
                       Sub(canvasXY.x, canvasW(s, Sub(plotter_x, s.plotviewBox.xmin)))],
                   plotter_y, canvasXY)

\* zoomTo setting zoomlevel to the smaller of the two ratios
zoomToLevelMin(s, bbox) ==
    IF s.exc # NoExc THEN s
    ELSE IF IsZero(s.canvasBox.w) \/ IsZero(s.canvasBox.h) THEN Raise(s, "ZeroDivisionError")
    ELSE [s EXCEPT !.zoomlevel = Min(Div(bbox.w, s.canvasBox.w), Div(bbox.h, s.canvasBox.h))]

\* zoomTo, its assignment to zoomlevel
zoomToLevel(s, bbox) ==
    IF s.exc # NoExc THEN s
    ELSE IF IsZero(s.canvasBox.w) \/ IsZero(s.canvasBox.h) THEN Raise(s, "ZeroDivisionError")
    ELSE [s EXCEPT !.zoomlevel = Max(Div(bbox.w, s.canvasBox.w), Div(bbox.h, s.canvasBox.h))]

zoomTo(s, bbox) ==
    zoomToLevel(fixPoint(s, s.plotviewBox.xmin, s.plotviewBox.ymin,
                         Point(bbox.xmin, bbox.ymin)), bbox)

\* setCursorSize, the clamp of w and h
clampCursorSize(s) ==
    IF IsZero(s.plotviewBox.w) THEN Raise(s, "ZeroDivisionError")
    ELSE IF IsZero(s.plotviewBox.h)
      THEN Raise([s EXCEPT !.cursorBox.w = Max(@, canvasCharWidth(s))], "ZeroDivisionError")
    ELSE [s EXCEPT !.cursorBox.w = Max(@, canvasCharWidth(s)),
                   !.cursorBox.h = Max(@, canvasCharHeight(s))]

setCursorSize(s, p) ==
    IF s.exc # NoExc THEN s
    ELSE clampCursorSize([s EXCEPT !.cursorBox =
                             BoundingBox(s.cursorBox.xmin, s.cursorBox.ymin, p.x, p.y)])

(***************************************************************************)
(* Canvas: the stored primitives, the legend and the color assignment       *)
(***************************************************************************)
\* a primitive is <<x1, y1, x2, y2, attr, row>>
point(s, x, y, attr, row) == [s EXCEPT !.gridlines = Append(@, <<x, y, x, y, attr, row>>)]

line(s, x1, y1, x2, y2, attr, row) ==
    [s EXCEPT !.gridlines = Append(@, <<x1, y1, x2, y2, attr, row>>)]

label(s, x, y, text, attr, row) ==
    [s EXCEPT !.gridlabels = Append(@, <<x, y, text, attr, row>>)]

reset(s) ==
    [s EXCEPT !.gridlines = <<>>,
              !.legends = <<>>,
              !.plotAttrs = <<>>,
              !.unusedAttrs = Palette]

\* a key is a tuple of values, each <<type, text>> with text its str()
\* ' '.join(str(x) for x in k)
RECURSIVE JoinStr(_)
JoinStr(k) ==
    IF k = <<>> THEN ""
    ELSE IF Len(k) = 1 THEN k[1][2]
    ELSE k[1][2] \o " " \o JoinStr(Tail(k))

LegendIndex(legends, txt) ==
    IF \E i \in 1..Len(legends) : legends[i][1] = txt
    THEN CHOOSE i \in 1..Len(legends) : legends[i][1] = txt
    ELSE 0

\* self.legends[legend] = attr on the OrderedDict: an entry of that text is
\* overwritten in place, a new text is appended
SetLegend(legends, txt, attr) ==
    LET i == LegendIndex(legends, txt)
    IN  IF i = 0 THEN Append(legends, <<txt, attr>>)
        ELSE [legends EXCEPT ![i] = <<txt, attr>>]

\* the attribute plotColor(k) returns
plotColorAttr(s, k) ==
    IF k \in DOMAIN s.plotAttrs THEN s.plotAttrs[k] ELSE s.unusedAttrs[1]

plotColor(s, k) ==
    IF k \in DOMAIN s.plotAttrs THEN s
    ELSE IF s.unusedAttrs = <<>> THEN Raise(s, "IndexError")
    ELSE LET many   == Len(s.unusedAttrs) > 1
             attr   == s.unusedAttrs[1]
             legend == IF many THEN JoinStr(k) ELSE "[other]"
             s1     == IF many THEN [s EXCEPT !.unusedAttrs = Tail(@)] ELSE s
         IN  plotlegends([s1 EXCEPT !.legends = SetLegend(@, legend, attr),
                                    !.plotAttrs = (k :> attr) @@ @])

\* togglePixelAttrs without its remove branch
togglePixelAttrsAdd(s, attr) ==
    plotlegends([s EXCEPT !.disabledAttrs = @ \cup {attr}])

togglePixelAttrs(s, attr) ==
    plotlegends([s EXCEPT !.disabledAttrs =
                    IF attr \in @ THEN @ \ {attr} ELSE @ \cup {attr}])

(***************************************************************************)
(* Plotter: the attribute shown at a pixel                                  *)
(***************************************************************************)
\* the value returned for a pixel that shows nothing
NoAttr == 0

\* the attrs of pixels[y][x] that are not disabled
EnabledAt(s, y, x) == {a \in AttrsAt(s, y, x) : a \notin s.disabledAttrs}

\* getPixelAttrRandom(x, y): the values random.choice may return
getPixelAttrRandom(s, x, y) ==
    LET yi == PyIndex(y, s.plotheight)
        xi == PyIndex(x, s.plotwidth)
    IN  IF EnabledAt(s, yi, xi) = {} THEN {NoAttr} ELSE EnabledAt(s, yi, xi)

\* (len(rows), attr) of a sorts at or before that of b
SortsBefore(s, y, x, a, b) ==
    \/ Len(RowsAt(s, y, x, a)) < Len(RowsAt(s, y, x, b))
    \/ Len(RowsAt(s, y, x, a)) = Len(RowsAt(s, y, x, b)) /\ a <= b

\* getPixelAttrMost(x, y), with no row selected: the last of the sorted
\* (len(rows), attr, rows) of the enabled attrs
getPixelAttrMost(s, x, y) ==
    LET yi == PyIndex(y, s.plotheight)
        xi == PyIndex(x, s.plotwidth)
    IN  IF EnabledAt(s, yi, xi) = {} THEN NoAttr
        ELSE CHOOSE a \in EnabledAt(s, yi, xi) :
                 \A b \in EnabledAt(s, yi, xi) : SortsBefore(s, yi, xi, b, a)

(***************************************************************************)
(* Plotter.getRowsInside: the rows under enabled attrs at the pixels of     *)
(* bbox; the result is <<rows, s>> with s carrying the accesses and the     *)
(* exception.  The attrs of one pixel are visited in ascending order (the   *)
(* dict's insertion order is not kept by the model).                        *)
(***************************************************************************)
RECURSIVE SetToSeq(_)
SetToSeq(S) ==
    IF S = {} THEN <<>>
    ELSE LET m == CHOOSE x \in S : \A y \in S : x <= y
         IN  <<m>> \o SetToSeq(S \ {m})

\* ret[id(r)] = r for each r in rows
RECURSIVE Dedup(_, _)
Dedup(ret, rows) ==
    IF rows = <<>> THEN ret
    ELSE Dedup(IF \E i \in 1..Len(ret) : ret[i] = Head(rows) THEN ret
               ELSE Append(ret, Head(rows)), Tail(rows))

RECURSIVE DedupAttrs(_, _, _, _, _)
DedupAttrs(s, ret, y, x, attrs) ==
    IF attrs = <<>> THEN ret
    ELSE DedupAttrs(s, IF Head(attrs) \in s.disabledAttrs THEN ret
                       ELSE Dedup(ret, RowsAt(s, y, x, Head(attrs))), y, x, Tail(attrs))

\* the inner loop, over x, of row y; r is <<ret, s>>
RECURSIVE ColLoop(_, _, _, _)
ColLoop(r, y, x, b) ==
    IF x > b.x2 \/ r[2].exc # NoExc THEN r
    ELSE LET s  == r[2]
             yi == PyIndex(y, s.plotheight)
             xi == PyIndex(x, s.plotwidth)
             s1 == [s EXCEPT !.access = @ \cup {<<x, y>>}]
         IN  IF yi = -1 \/ xi = -1 THEN <<r[1], Raise(s1, "IndexError")>>
             ELSE ColLoop(<<DedupAttrs(s, r[1], yi, xi, SetToSeq(AttrsAt(s, yi, xi))), s1>>,
                          y, x + 1, b)

\* the outer loop, over y
RECURSIVE RowsLoop(_, _, _)
RowsLoop(r, y, b) ==
    IF y > b.y2 \/ r[2].exc # NoExc THEN r
    ELSE RowsLoop(ColLoop(r, y, b.x1, b), y + 1, b)

\* getRowsInside over range(ymin, ymax) and range(xmin, xmax)
getRowsInsideExclusive(s, bbox) ==
    LET b == [x1 |-> bbox.xmin[1], x2 |-> xmax(bbox)[1] - 1,
              y1 |-> bbox.ymin[1], y2 |-> ymax(bbox)[1] - 1]
    IN  RowsLoop(<<<<>>, s>>, b.y1, b)

\* bbox has integer corners (it comes from scaleX and scaleY)
getRowsInside(s, bbox) ==
    LET b == [x1 |-> bbox.xmin[1], x2 |-> xmax(bbox)[1],
              y1 |-> bbox.ymin[1], y2 |-> ymax(bbox)[1]]
    IN  RowsLoop(<<<<>>, s>>, b.y1, b)

(***************************************************************************)
(* The render pass.  render() runs in the foreground; render_async runs as  *)
(* a thread of sheet.currentThreads (the variable threads), one step per    *)
(* call of setZoom, per stored primitive and per stored label.              *)
(***************************************************************************)
\* at most MaxThreads render threads are alive at a time
MaxThreads == 2

\* @async: the call starts a thread that carries the name of the function
\* it runs and is appended to the sheet's currentThreads
execAsync(ths, func) ==
    Append(ths, [name |-> func, status |-> "running", pc |-> "setZoom", i |-> 1,
                 xmin |-> Zero, ymin |-> Zero, xmax |-> Zero, ymax |-> Zero,
                 xfactor |-> Zero, yfactor |-> Zero,
                 plotxmin |-> Zero, plotymin |-> Zero, exc |-> NoExc])

\* cancelThread(*sel): every selected thread that still runs is stopped
cancelThread(ths, sel) ==
    [i \in 1..Len(ths) |->
        IF i \in sel /\ ths[i].status = "running"
        THEN [ths[i] EXCEPT !.status = "canceled"] ELSE ths[i]]

\* the threads render() cancels
renderCancelSet(ths) == {i \in 1..Len(ths) : ths[i].name = "plotAll_async"}

Alive(ths) == {i \in 1..Len(ths) : ths[i].status = "running"}

\* threads that ended before this render are dropped from the list: they
\* never act again
Prune(ths) == SelectSeq(ths, LAMBDA t : t.status = "running")

\* render(): the sheet after it, and the threads after it
renderSheet(s) ==
    resetCanvasDimensions([s EXCEPT !.needsRefresh = FALSE,
                                    !.pixels = NoPixels,
                                    !.labels = <<>>])

renderThreads(ths) ==
    execAsync(Prune(cancelThread(ths, renderCancelSet(ths))), "render_async")

\* the thread after a step that left the sheet s1
threadAfter(s1, t, next) ==
    IF s1.exc # NoExc THEN <<s1, [t EXCEPT !.status = "died", !.exc = s1.exc]>>
    ELSE <<s1, next>>

\* the values render_async keeps in its local variables
renderCapture(s, t) ==
    [t EXCEPT !.pc = "gridlines", !.i = 1,
              !.xmin = s.visibleBox.xmin, !.ymin = s.visibleBox.ymin,
              !.xmax = xmax(s.visibleBox), !.ymax = ymax(s.visibleBox),
              !.xfactor = xScaler(s), !.yfactor = yScaler(s),
              !.plotxmin = s.plotviewBox.xmin, !.plotymin = s.plotviewBox.ymin]

renderCaptured(s1, t) == threadAfter(s1, t, IF s1.exc # NoExc THEN t ELSE renderCapture(s1, t))

\* render_async, up to the loops: setZoom() and the values it captures
renderBegin(s, t) == renderCaptured(setZoom(s, None), t)

\* the body of the loop over gridlines for primitive g, clipped to r
plotClipped(s, t, g, r) ==
    LET px(x) == Add(t.plotxmin, Mul(Sub(x, t.xmin), t.xfactor))
        py(y) == Add(t.plotymin, Mul(Sub(y, t.ymin), t.yfactor))
    IN  IF r = NoSegment THEN s
        ELSE IF r[1] = r[3] /\ r[2] = r[4]
          THEN plotpixel(s, round(px(r[1])), round(py(r[2])), g[5], g[6])
        ELSE plotline(s, px(r[1]), py(r[2]), px(r[3]), py(r[4]), g[5], g[6])

renderPrimitive(s, t, g) ==
    plotClipped(s, t, g, clipline(g[1], g[2], g[3], g[4], t.xmin, t.ymin, t.xmax, t.ymax))

\* where the thread goes after primitive t.i
afterPrimitive(s, t) ==
    IF t.i < Len(s.gridlines) THEN [t EXCEPT !.i = @ + 1]
    ELSE IF s.gridlabels = <<>> THEN [t EXCEPT !.status = "done", !.pc = "end"]
    ELSE [t EXCEPT !.pc = "gridlabels", !.i = 1]

renderPlot(s, t) ==
    IF s.gridlines = <<>> THEN <<s, afterPrimitive(s, t)>>
    ELSE threadAfter(renderPrimitive(s, t, s.gridlines[t.i]), t, afterPrimitive(s, t))

\* the loop over gridlabels: self.plotlabel(self.scaleX(x), self.scaleY(y),
\* text, attr, row) passes five arguments to plotlabel(x, y, text, attr)
renderLabel(s, t) ==
    threadAfter(IF ~(xScalerOK(s) /\ yScalerOK(s)) THEN Raise(s, "ZeroDivisionError")
                ELSE Raise(s, "TypeError"), t, t)

(***************************************************************************)
(* Plotter.draw, as far as the canvas state goes: the render of a dirty     *)
(* canvas and the pixels the glyph loop reads                               *)
(***************************************************************************)
drawAccess ==
    {<<cx * 2 + dx, cy * 4 + dy>> :
        cx \in 0..(WindowWidth - 1), cy \in 0..(WindowHeight - 2),
        dx \in 0..1, dy \in 0..3}

(***************************************************************************)
(* The commands of Canvas.commands, each the whole handler                  *)
(***************************************************************************)
MoveCommands == {"move-left", "move-right", "move-down", "move-up", "zh", "zl", "zj", "zk"}

ResizeCommands == {"gH", "gL", "gJ", "gK", "H", "L", "J", "K"}

CursorCommands == MoveCommands \cup ResizeCommands

\* the commands that assign to a field of sheet.cursorBox
cursorCommand(s, cmd) ==
    LET c == s.cursorBox
        usesChar == cmd \in {"zh", "zl", "zj", "zk", "H", "L", "J", "K"}
        usesW == cmd \in {"zh", "zl", "H", "L"}
    IN  IF usesChar /\ IsZero(IF usesW THEN s.plotviewBox.w ELSE s.plotviewBox.h)
          THEN Raise(s, "ZeroDivisionError")
        ELSE [s EXCEPT !.cursorBox =
            CASE cmd = "move-left"  -> [c EXCEPT !.xmin = Sub(@, c.w)]
              [] cmd = "move-right" -> [c EXCEPT !.xmin = Add(@, c.w)]
              [] cmd = "move-down"  -> [c EXCEPT !.ymin = Add(@, c.h)]
              [] cmd = "move-up"    -> [c EXCEPT !.ymin = Sub(@, c.h)]
              [] cmd = "zh" -> [c EXCEPT !.xmin = Sub(@, canvasCharWidth(s))]
              [] cmd = "zl" -> [c EXCEPT !.xmin = Add(@, canvasCharWidth(s))]
              [] cmd = "zj" -> [c EXCEPT !.ymin = Add(@, canvasCharHeight(s))]
              [] cmd = "zk" -> [c EXCEPT !.ymin = Sub(@, canvasCharHeight(s))]
              [] cmd = "gH" -> [c EXCEPT !.w = Div(@, I(2))]
              [] cmd = "gL" -> [c EXCEPT !.w = Mul(@, I(2))]
              [] cmd = "gJ" -> [c EXCEPT !.h = Div(@, I(2))]
              [] cmd = "gK" -> [c EXCEPT !.h = Mul(@, I(2))]
              [] cmd = "H" -> [c EXCEPT !.w = Sub(@, canvasCharWidth(s))]
              [] cmd = "L" -> [c EXCEPT !.w = Add(@, canvasCharWidth(s))]
              [] cmd = "J" -> [c EXCEPT !.h = Add(@, canvasCharHeight(s))]
              [] cmd = "K" -> [c EXCEPT !.h = Sub(@, canvasCharHeight(s))]]

\* 'zz'
zoomToCursor(s) == zoomTo(s, s.cursorBox)

\* '-' (out) and '+' (in): zoom about the cursor's center
zoomAtCursor(s, out) ==
    LET tmp == center(s.cursorBox)
        zl  == IF out THEN Mul(s.zoomlevel, zoom_incr) ELSE Div(s.zoomlevel, zoom_incr)
    IN  fixPoint(setZoom(s, Some(zl)),
                 xcenter(s.plotviewBox), ycenter(s.plotviewBox), tmp)

\* '_'
zoomToFit(s) ==
    refresh(setZoom([s EXCEPT !.canvasBox = None, !.visibleBox = None], Some(One)))

mouseOK(s) == xDivOK(s) /\ yDivOK(s)

\* BUTTON1_PRESSED
button1Pressed(s, mx, my) ==
    IF ~mouseOK(s) THEN Raise(s, "ZeroDivisionError")
    ELSE LET p == canvasMouseXY(s, mx, my)
         IN  [s EXCEPT !.cursorBox = Box(p.x, p.y, Zero, Zero)]

\* BUTTON1_RELEASED
button1Released(s, mx, my) ==
    IF ~mouseOK(s) THEN Raise(s, "ZeroDivisionError")
    ELSE setCursorSize(s, canvasMouseXY(s, mx, my))

\* BUTTON3_PRESSED
button3Pressed(s, mx, my) ==
    IF ~mouseOK(s) THEN Raise(s, "ZeroDivisionError")
    ELSE [s EXCEPT !.gridAnchorXY = canvasMouseXY(s, mx, my)]

\* BUTTON3_RELEASED
button3Released(s, mx, my) ==
    fixPoint(s, plotterMouseX(mx), plotterMouseY(my), s.gridAnchorXY)

\* BUTTON4_PRESSED (in) and REPORT_MOUSE_POSITION (out): the scroll wheel
zoomAtMouse(s, mx, my, out) ==
    IF ~mouseOK(s) THEN Raise(s, "ZeroDivisionError")
    ELSE LET tmp == canvasMouseXY(s, mx, my)
             zl  == IF out THEN Mul(s.zoomlevel, zoom_incr)
                    ELSE Div(s.zoomlevel, zoom_incr)
         IN  fixPoint(setZoom(s, Some(zl)), plotterMouseX(mx), plotterMouseY(my), tmp)

\* 's', 't', 'u', ENTER: getRowsInside(plotterCursorBox);
\* 'gs', 'gt', 'gu', 'g'+ENTER: getRowsInside(plotterVisibleBox)
rowsInside(s, visible) ==
    IF ~(xScalerOK(s) /\ yScalerOK(s)) THEN <<<<>>, Raise(s, "ZeroDivisionError")>>
    ELSE getRowsInside(s, IF visible THEN plotterVisibleBox(s) ELSE plotterCursorBox(s))

(***************************************************************************)
(* The state: the Canvas object (sheet), its render threads (threads), and  *)
(* what the last operation was, returned, raised and indexed (hist); hist   *)
(* also counts the commands the user may still issue (left).                *)
(***************************************************************************)
\* Plotter.__init__ and Canvas.__init__
NewCanvas ==
    reset(resetCanvasDimensions(
        [plotwidth |-> 0, plotheight |-> 0, pixels |-> NoPixels, plotviewBox |-> None,
         labels |-> <<>>, disabledAttrs |-> {}, needsRefresh |-> FALSE,
         canvasBox |-> None, visibleBox |-> None, cursorBox |-> None,
         zoomlevel |-> One, gridAnchorXY |-> None,
         gridlines |-> <<>>, gridlabels |-> <<>>, legends |-> <<>>,
         plotAttrs |-> <<>>, unusedAttrs |-> <<>>, commands |-> <<>>,
         access |-> {}, exc |-> NoExc]))

NoHist(n) == [op |-> "init", args |-> <<>>, ret |-> <<>>, access |-> {}, exc |-> NoExc,
              left |-> n]

BoundsSet(s) == s.canvasBox # None /\ s.visibleBox # None /\ s.cursorBox # None

\* the end of an operation: the sheet it leaves, and its record
Finish(s, op, args, ret, cost) ==
    /\ sheet' = [s EXCEPT !.exc = NoExc, !.access = {}]
    /\ hist' = [op |-> op, args |-> args, ret |-> ret, access |-> s.access,
                exc |-> s.exc, left |-> hist.left - cost]

(***************************************************************************)
(* Actions: the render pass                                                 *)
(***************************************************************************)
\* draw, after its render: the cursor box in pixels, then the glyph loop
\* options.disp_pixel_random is False: draw picks with getPixelAttrMost
getPixelAttr(s, x, y) == getPixelAttrMost(s, x, y)

\* the picks at the sub-pixels of the character cell (char_x, char_y)
block_attrs(s, char_x, char_y) ==
    << getPixelAttr(s, char_x * 2, char_y * 4),
       getPixelAttr(s, char_x * 2, char_y * 4 + 1),
       getPixelAttr(s, char_x * 2, char_y * 4 + 2),
       getPixelAttr(s, char_x * 2 + 1, char_y * 4),
       getPixelAttr(s, char_x * 2 + 1, char_y * 4 + 1),
       getPixelAttr(s, char_x * 2 + 1, char_y * 4 + 2),
       getPixelAttr(s, char_x * 2, char_y * 4 + 3),
       getPixelAttr(s, char_x * 2 + 1, char_y * 4 + 3) >>

\* the loop over block_attrs: pow2 doubles at each sample
RECURSIVE braille_num(_, _, _)
braille_num(b, k, pow2) ==
    IF k > Len(b) THEN 0
    ELSE (IF b[k] # NoAttr THEN pow2 ELSE 0) + braille_num(b, k + 1, pow2 * 2)

\* Counter(c for c in block_attrs if c).most_common(1)[0][0]: the attr
\* counted most often, the one met first among those that tie
CountOf(b, a) == Cardinality({k \in 1..Len(b) : b[k] = a})

FirstAt(b, a) == CHOOSE k \in 1..Len(b) : b[k] = a /\ \A j \in 1..(k - 1) : b[j] # a

mostCommon(b) ==
    CHOOSE a \in {b[k] : k \in 1..Len(b)} \ {NoAttr} :
        \A c \in {b[k] : k \in 1..Len(b)} \ {NoAttr} :
            \/ CountOf(b, c) < CountOf(b, a)
            \/ CountOf(b, c) = CountOf(b, a) /\ FirstAt(b, a) <= FirstAt(b, c)

\* colors.update(attr, 0, options.color_current_row, 10): the attr with the
\* attribute of the current row (reverse video) set
CurrentRowAttr == 16

colorsUpdate(attr) == (attr % CurrentRowAttr) + CurrentRowAttr

\* cursorBBox.within(char_x*2, char_y*4) or
\* cursorBBox.within(char_x*2+1, char_y*4+3), for the box of the given bounds
cursorCovers(bxmin, bymin, bxmax, bymax, char_x, char_y) ==
    \/ withinBounds(bxmin, bymin, bxmax, bymax, I(char_x * 2), I(char_y * 4))
    \/ withinBounds(bxmin, bymin, bxmax, bymax, I(char_x * 2 + 1), I(char_y * 4 + 3))

\* the attr of the cell before the test of the glyph
cellAttr(b, covered) ==
    IF covered THEN colorsUpdate(IF braille_num(b, 1, 1) # 0 THEN mostCommon(b) ELSE NoAttr)
    ELSE IF braille_num(b, 1, 1) # 0 THEN mostCommon(b) ELSE NoAttr

\* the cell drawn without the cursor's attr
drawCellMasked(b, covered, char_x, char_y) ==
    IF braille_num(b, 1, 1) # 0
    THEN {<<char_y, char_x, 10240 + braille_num(b, 1, 1), cellAttr(b, covered)>>}
    ELSE {}

\* scr.addstr(char_y, char_x, chr(0x2800+braille_num), attr) if attr
drawCell(b, covered, char_x, char_y) ==
    IF cellAttr(b, covered) # NoAttr
    THEN {<<char_y, char_x, 10240 + braille_num(b, 1, 1), cellAttr(b, covered)>>}
    ELSE {}

\* the cells that hold a plotted sub-pixel; every other cell has eight
\* picks of 0
plottedCells(s) == {<<k[2] \div 2, k[1] \div 4>> : k \in DOMAIN s.pixels}

EmptyBlock == <<NoAttr, NoAttr, NoAttr, NoAttr, NoAttr, NoAttr, NoAttr, NoAttr>>

cellBlock(s, plotted, char_x, char_y) ==
    IF <<char_x, char_y>> \in plotted THEN block_attrs(s, char_x, char_y) ELSE EmptyBlock

\* the loops over char_y and char_x, the cursor box given by its bounds
drawCells(s, bxmin, bymin, bxmax, bymax, plotted) ==
    UNION {drawCell(cellBlock(s, plotted, cx, cy),
                    cursorCovers(bxmin, bymin, bxmax, bymax, cx, cy), cx, cy) :
              cx \in 0..(WindowWidth - 1), cy \in 0..(WindowHeight - 2)}

drawCursor(s, cursorBBox) ==
    drawCells(s, cursorBBox.xmin, cursorBBox.ymin, xmax(cursorBBox), ymax(cursorBBox),
              plottedCells(s))

\* the glyphs draw() puts on the screen
drawScreen(s) ==
    IF s.exc # NoExc \/ s.plotheight = 0 THEN {}
    ELSE drawCursor(s, plotterCursorBox(s))

drawGlyphs(s) ==
    IF s.cursorBox # None /\ ~(xScalerOK(s) /\ yScalerOK(s))
      THEN Raise(s, "ZeroDivisionError")
    ELSE [s EXCEPT !.access = drawAccess]

\* Plotter.draw(scr)
Draw ==
    /\ sheet.needsRefresh => Cardinality(Alive(threads)) < MaxThreads
    /\ threads' = IF sheet.needsRefresh THEN renderThreads(threads) ELSE threads
    /\ Finish(drawGlyphs(IF sheet.needsRefresh THEN renderSheet(sheet) ELSE sheet),
              "draw", <<sheet.needsRefresh>>,
              drawScreen(drawGlyphs(IF sheet.needsRefresh THEN renderSheet(sheet) ELSE sheet)), 0)

\* '^L' and KEY_RESIZE
Refresh ==
    /\ hist.left > 0
    /\ Finish(refresh(sheet), "refresh", <<>>, <<>>, 1)
    /\ UNCHANGED threads

ThreadStep(i, res) ==
    /\ threads' = [threads EXCEPT ![i] = res[2]]
    /\ Finish(res[1], "render_async", <<i>>, <<>>, 0)

RenderBegin ==
    \E i \in Alive(threads) :
        /\ threads[i].pc = "setZoom"
        /\ ThreadStep(i, renderBegin(sheet, threads[i]))

RenderPlot ==
    \E i \in Alive(threads) :
        /\ threads[i].pc = "gridlines"
        /\ ThreadStep(i, renderPlot(sheet, threads[i]))

RenderLabel ==
    \E i \in Alive(threads) :
        /\ threads[i].pc = "gridlabels"
        /\ ThreadStep(i, renderLabel(sheet, threads[i]))

(***************************************************************************)
(* Actions: the commands.  A command is taken once the bounds are set (a    *)
(* command on a canvas whose boxes are still None raises AttributeError and *)
(* changes nothing).                                                        *)
(***************************************************************************)
\* the terminal cells the mouse events of the model come from
MouseCells == {<<10, 0>>, <<11, 1>>}

CanCommand == hist.left > 0 /\ BoundsSet(sheet)

CursorCommand ==
    \E cmd \in CursorCommands :
        /\ CanCommand
        /\ Finish(cursorCommand(sheet, cmd), cmd, <<>>, <<>>, 1)
        /\ UNCHANGED threads

ZoomToCursor ==
    /\ CanCommand
    /\ Finish(zoomToCursor(sheet), "zz",
              <<sheet.cursorBox, sheet.visibleBox, sheet.canvasBox>>, <<>>, 1)
    /\ UNCHANGED threads

ZoomAtCursor ==
    \E out \in BOOLEAN :
        /\ CanCommand
        /\ Finish(zoomAtCursor(sheet, out), IF out THEN "-" ELSE "+", <<>>, <<>>, 1)
        /\ UNCHANGED threads

ZoomToFit ==
    /\ CanCommand
    /\ Finish(zoomToFit(sheet), "_", <<>>, <<>>, 1)
    /\ UNCHANGED threads

Button1Pressed ==
    \E m \in MouseCells :
        /\ CanCommand
        /\ Finish(button1Pressed(sheet, m[1], m[2]), "BUTTON1_PRESSED", m, <<>>, 1)
        /\ UNCHANGED threads

Button1Released ==
    \E m \in MouseCells :
        /\ CanCommand
        /\ Finish(button1Released(sheet, m[1], m[2]), "BUTTON1_RELEASED", m, <<>>, 1)
        /\ UNCHANGED threads

Button3Pressed ==
    \E m \in MouseCells :
        /\ CanCommand
        /\ Finish(button3Pressed(sheet, m[1], m[2]), "BUTTON3_PRESSED", m, <<>>, 1)
        /\ UNCHANGED threads

\* fixPoint(plotterMouseX, plotterMouseY, gridAnchorXY)
Button3Released ==
    \E m \in MouseCells :
        /\ CanCommand
        /\ sheet.gridAnchorXY # None
        /\ Finish(button3Released(sheet, m[1], m[2]), "BUTTON3_RELEASED",
                  <<plotterMouseX(m[1]), plotterMouseY(m[2]), sheet.gridAnchorXY>>, <<>>, 1)
        /\ UNCHANGED threads

ZoomAtMouse ==
    \E m \in MouseCells, out \in BOOLEAN :
        /\ CanCommand
        /\ Finish(zoomAtMouse(sheet, m[1], m[2], out),
                  IF out THEN "REPORT_MOUSE_POSITION" ELSE "BUTTON4_PRESSED", m, <<>>, 1)
        /\ UNCHANGED threads

FinishRows(r, op) == Finish(r[2], op, <<>>, r[1], 1)

RowsInside ==
    \E visible \in BOOLEAN :
        /\ CanCommand
        /\ FinishRows(rowsInside(sheet, visible), IF visible THEN "gs" ELSE "s")
        /\ UNCHANGED threads

(***************************************************************************)
(* Actions: the load phase, the legend and the color assignment             *)
(***************************************************************************)
MaxLines == 2

MaxResets == 1

\* the grouping keys plotColor is called with; a key is a tuple of values,
\* each <<type, str(value)>>: (1,), ('1',), ('a',), ('a', 'b')
Keys == { << <<"int", "1">> >>, << <<"str", "1">> >>, << <<"str", "a">> >>,
          << <<"str", "a">>, <<"str", "b">> >> }

LoadCoords == {I(0), I(2)}

Stored == Len(sheet.gridlines) + Len(sheet.gridlabels)

AddPoint ==
    \E x \in LoadCoords :
        /\ Stored < MaxLines
        /\ Finish(point(sheet, x, x, 1, 1), "point", <<x>>, <<>>, 0)
        /\ UNCHANGED threads

AddLine ==
    \E x \in LoadCoords :
        /\ Stored < MaxLines
        /\ Finish(line(sheet, I(1), I(1), x, I(0), 2, 2), "line", <<x>>, <<>>, 0)
        /\ UNCHANGED threads

AddLabel ==
    \E x \in LoadCoords :
        /\ Stored < MaxLines
        /\ Finish(label(sheet, x, x, "label", 1, 1), "label", <<x>>, <<>>, 0)
        /\ UNCHANGED threads

Reset ==
    /\ hist.left > 0
    /\ Finish(reset(sheet), "reset", <<>>, <<>>, 1)
    /\ UNCHANGED threads

PlotColor ==
    \E k \in Keys :
        /\ Finish(plotColor(sheet, k), "plotColor", <<k, k \in DOMAIN sheet.plotAttrs>>,
                  <<plotColorAttr(sheet, k)>>, 0)
        /\ UNCHANGED threads

(***************************************************************************)
(* Actions: the Plotter's grid, written by plotpixel, read by the picks and *)
(* by getRowsInside                                                         *)
(***************************************************************************)
\* the calls of plotpixel in one behaviour
MaxPlots == 3

\* the pixels plotted and read: three sub-pixels of the character cell
\* (0, 0) and one pixel of the next cell
PlotPoints == {<<0, 0>>, <<1, 0>>, <<0, 3>>, <<2, 0>>}

PlotAttrs == {1, 2}

PlotRows == {1, 2}

\* the boxes getRowsInside is called with: the cell, its first pixel, and
\* a box across the two cells
PlotBoxes == {BoundingBox(I(0), I(0), I(1), I(3)), BoundingBox(I(0), I(0), I(0), I(0)),
              BoundingBox(I(1), I(0), I(2), I(0))}

PlotPixel ==
    \E p \in PlotPoints, attr \in PlotAttrs, row \in PlotRows :
        /\ hist.left > 0
        /\ Finish(plotpixel(sheet, p[1], p[2], attr, row), "plotpixel",
                  <<p[1], p[2], attr, row>>, <<>>, 1)
        /\ UNCHANGED threads

TogglePixelAttrs ==
    \E attr \in PlotAttrs :
        /\ Finish(togglePixelAttrs(sheet, attr), "togglePixelAttrs",
                  <<attr, sheet.disabledAttrs, sheet.pixels, sheet.labels>>, <<>>, 0)
        /\ UNCHANGED threads

GetFinish(r, box) == Finish(r[2], "getRowsInside", <<box>>, r[1], 0)

GetRowsInside ==
    \E box \in PlotBoxes :
        /\ GetFinish(getRowsInside(sheet, box), box)
        /\ UNCHANGED threads

GetPixelAttrMost ==
    \E p \in PlotPoints :
        /\ Finish(sheet, "getPixelAttrMost", p, <<getPixelAttrMost(sheet, p[1], p[2])>>, 0)
        /\ UNCHANGED threads

GetPixelAttrRandom ==
    \E p \in PlotPoints :
        \E c \in getPixelAttrRandom(sheet, p[1], p[2]) :
            /\ Finish(sheet, "getPixelAttrRandom", p, <<c>>, 0)
            /\ UNCHANGED threads

\* a Plotter after resetCanvasDimensions, plotted on, toggled and read
InitPlot ==
    /\ sheet = NewCanvas
    /\ threads = <<>>
    /\ hist = NoHist(MaxPlots)

NextPlot ==
    \/ PlotPixel
    \/ TogglePixelAttrs
    \/ GetRowsInside
    \/ GetPixelAttrMost
    \/ GetPixelAttrRandom

SpecPlot == InitPlot /\ [][NextPlot]_vars

(***************************************************************************)
(* Actions: calls of the pure functions                                     *)
(***************************************************************************)
\* coordinates of the segments: -MaxCoord..MaxCoord
MaxCoord == 3

\* corners of the clip boxes: 0..MaxBox
MaxBox == 2

Coords == (-MaxCoord)..MaxCoord

\* the call iterline(x1, y1, x2, y2) of the arguments drawn by InitLine
CallIterline ==
    /\ hist.op = "init"
    /\ hist' = [hist EXCEPT !.op = "iterline",
                            !.ret = iterline(I(hist.args[1]), I(hist.args[2]),
                                             I(hist.args[3]), I(hist.args[4]))]
    /\ UNCHANGED <<sheet, threads>>

\* the call clipline(x1, y1, x2, y2, xmin, ymin, xmax, ymax) of the arguments
\* drawn by InitClip
CallClipline ==
    /\ hist.op = "init"
    /\ hist' = [hist EXCEPT !.op = "clipline",
                            !.ret = clipline(I(hist.args[1]), I(hist.args[2]),
                                             I(hist.args[3]), I(hist.args[4]),
                                             I(hist.args[5]), I(hist.args[6]),
                                             I(hist.args[7]), I(hist.args[8]))]
    /\ UNCHANGED <<sheet, threads>>

(***************************************************************************)
(* Specifications                                                           *)
(***************************************************************************)
\* the commands the user issues in one behaviour
MaxCmds == 2

Seg(x1, y1, x2, y2, attr, row) == <<I(x1), I(y1), I(x2), I(y2), attr, row>>

\* what a load phase has stored: nothing; a single point; a vertical line;
\* two crossing lines; a line and a label
Scenes ==
    { [gridlines |-> <<>>, gridlabels |-> <<>>],
      [gridlines |-> <<Seg(1, 1, 1, 1, 1, 1)>>, gridlabels |-> <<>>],
      [gridlines |-> <<Seg(1, 0, 1, 4, 1, 1)>>, gridlabels |-> <<>>],
      [gridlines |-> <<Seg(0, 4, 2, 0, 1, 1), Seg(0, 0, 2, 4, 2, 2)>>, gridlabels |-> <<>>],
      [gridlines |-> <<Seg(0, 0, 2, 4, 1, 1)>>,
       gridlabels |-> << <<I(1), I(2), "label", 1, 1>> >>] }

\* a canvas after its load phase, which ends with refresh()
Loaded(scene) ==
    refresh([NewCanvas EXCEPT !.gridlines = scene.gridlines,
                              !.gridlabels = scene.gridlabels])

\* the canvas: a loaded canvas, drawn, rendered and driven by commands
Init ==
    /\ sheet \in {Loaded(scene) : scene \in Scenes}
    /\ threads = <<>>
    /\ hist = NoHist(MaxCmds)

Next ==
    \/ Draw
    \/ Refresh
    \/ RenderBegin
    \/ RenderPlot
    \/ RenderLabel
    \/ CursorCommand
    \/ ZoomToCursor
    \/ ZoomAtCursor
    \/ ZoomToFit
    \/ Button1Pressed
    \/ Button1Released
    \/ Button3Pressed
    \/ Button3Released
    \/ ZoomAtMouse
    \/ RowsInside

Spec == Init /\ [][Next]_vars

\* render_async run from the state <<s, t>> to its end, with no command and
\* no other thread in between
RECURSIVE RunPass(_, _), RunPassFrom(_)
RunPass(s, t) ==
    IF t.status # "running" THEN <<s, t>>
    ELSE RunPassFrom(IF t.pc = "setZoom" THEN renderBegin(s, t)
                     ELSE IF t.pc = "gridlines" THEN renderPlot(s, t)
                     ELSE renderLabel(s, t))

RunPassFrom(r) == RunPass([r[1] EXCEPT !.exc = NoExc, !.access = {}], r[2])

\* a loaded canvas after its first draw() and the render pass that draw started
Rendered(scene) ==
    RunPass(renderSheet(Loaded(scene)), execAsync(<<>>, "render_async")[1])

\* the commands on a canvas whose first render pass has ended
InitZoom ==
    \E scene \in Scenes :
        /\ sheet = Rendered(scene)[1]
        /\ threads = <<Rendered(scene)[2]>>
        /\ hist = NoHist(MaxCmds)

NextZoom ==
    \/ CursorCommand
    \/ ZoomToCursor
    \/ ZoomAtCursor
    \/ ZoomToFit
    \/ Button1Pressed
    \/ Button1Released
    \/ Button3Pressed
    \/ Button3Released
    \/ ZoomAtMouse

SpecZoom == InitZoom /\ [][NextZoom]_vars

\* the load phase and the color assignment of a new canvas; reset() is
\* called at most MaxResets times
InitStore ==
    /\ sheet = NewCanvas
    /\ threads = <<>>
    /\ hist = NoHist(MaxResets)

NextStore ==
    \/ AddPoint
    \/ AddLine
    \/ AddLabel
    \/ Reset
    \/ PlotColor

SpecStore == InitStore /\ [][NextStore]_vars

\* iterline on integer endpoints
InitLine ==
    /\ sheet = NewCanvas
    /\ threads = <<>>
    /\ hist \in {[NoHist(0) EXCEPT !.args = <<x1, y1, x2, y2>>] :
                    x1 \in Coords, y1 \in Coords, x2 \in Coords, y2 \in Coords}

SpecLine == InitLine /\ [][CallIterline]_vars

\* clipline on integer segments and on boxes with xmin <= xmax, ymin <= ymax
InitClip ==
    /\ sheet = NewCanvas
    /\ threads = <<>>
    /\ hist \in {[NoHist(0) EXCEPT !.args = seg \o box] :
                    seg \in ((-1)..MaxCoord) \X ((-1)..MaxCoord)
                            \X ((-1)..MaxCoord) \X ((-1)..MaxCoord),
                    box \in {b \in (0..MaxBox) \X (0..MaxBox) \X (0..MaxBox) \X (0..MaxBox) :
                                b[1] <= b[3] /\ b[2] <= b[4]}}

SpecClip == InitClip /\ [][CallClipline]_vars

(***************************************************************************)
(* Properties                                                               *)
(***************************************************************************)
\* the number of times row r is in the list rows
CellCount(rows, r) == Cardinality({j \in 1..Len(rows) : rows[j] = r})

\* two pixel grids hold the same (pixel, attribute, row) entries
SamePixels(p, q) ==
    /\ DOMAIN p = DOMAIN q
    /\ \A k \in DOMAIN p :
          /\ Len(p[k]) = Len(q[k])
          /\ \A j \in 1..Len(p[k]) : CellCount(p[k], p[k][j]) = CellCount(q[k], p[k][j])

\* the loop over gridlines of the pass t, from primitive k on, run alone
RECURSIVE PassLoop(_, _, _)
PassLoop(s, t, k) ==
    IF k > Len(s.gridlines) THEN s
    ELSE PassLoop(renderPrimitive(s, t, s.gridlines[k]), t, k + 1)

\* the grid the pass t fills when no other pass writes to it
PassPixels(s, t) == PassLoop([s EXCEPT !.pixels = NoPixels], t, 1).pixels

Newest == threads[Len(threads)]

\* C1: a pass was still running when render() started the newest pass
\* (threads that had ended were dropped, so the list holds two); once the
\* newest pass has completed, the grid holds exactly the entries that pass
\* produces under the bounds and scalers it captured, and none of the older
\* pass.
NewestPassOnly ==
    (Len(threads) >= 2 /\ Newest.status = "done")
        => SamePixels(sheet.pixels, PassPixels(sheet, Newest))

\* C2: at most one render task that is not canceled is running on the canvas.
OneRenderTask == Cardinality(Alive(threads)) <= 1

\* C3: every index into the pixel buffer made by the last operation (the
\* render pass's plotpixel, getRowsInside, the glyph loop of draw) has
\* 0 <= x < plotwidth and 0 <= y < plotheight.
AccessInRange ==
    \A a \in hist.access :
        /\ 0 <= a[1] /\ a[1] < sheet.plotwidth
        /\ 0 <= a[2] /\ a[2] < sheet.plotheight

\* C4: no operation divides by zero: the scalers and canvasW/canvasH are
\* computed from non-zero divisors in every reachable state.
NoZeroDivision == hist.exc # "ZeroDivisionError"

\* the keys that were given a color of their own
OwnColor == {k \in DOMAIN sheet.plotAttrs : sheet.plotAttrs[k] # Palette[PaletteSize]}

\* C5: of the n distinct keys seen since reset(), the first PaletteSize-1
\* have pairwise distinct colors and each its own legend entry; the keys
\* from the PaletteSize-th on share the last color under exactly one
\* "[other]" entry; a key already seen gets the color it had and leaves the
\* legend as it was (the legend has one entry per own color, plus "[other]").
LegendPerKey ==
    LET n == Cardinality(DOMAIN sheet.plotAttrs)
        shared == IF n >= PaletteSize THEN 1 ELSE 0
    IN  /\ Cardinality(OwnColor) = IF n < PaletteSize THEN n ELSE PaletteSize - 1
        /\ \A j \in OwnColor, k \in OwnColor :
              j # k => sheet.plotAttrs[j] # sheet.plotAttrs[k]
        /\ \A k \in OwnColor :
              \E i \in 1..Len(sheet.legends) :
                  sheet.legends[i] = <<JoinStr(k), sheet.plotAttrs[k]>>
        /\ Cardinality({i \in 1..Len(sheet.legends) : sheet.legends[i][1] = "[other]"})
              = shared
        /\ Len(sheet.legends) = Cardinality(OwnColor) + shared
        /\ (hist.op = "plotColor" /\ hist.args[2])
              => hist.ret[1] = sheet.plotAttrs[hist.args[1]]

\* C6: for integer endpoints iterline yields max(|x2-x1|, |y2-y1|) + 1
\* samples, the first (x1, y1) and the last (x2, y2); a zero-length segment
\* yields its single point.
IterlineEndpoints ==
    hist.op = "iterline" =>
        LET a == hist.args
            n == IF IAbs(a[3] - a[1]) > IAbs(a[4] - a[2])
                 THEN IAbs(a[3] - a[1]) ELSE IAbs(a[4] - a[2])
        IN  /\ Len(hist.ret) = n + 1
            /\ hist.ret[1] = <<I(a[1]), I(a[2])>>
            /\ hist.ret[Len(hist.ret)] = <<I(a[3]), I(a[4])>>

\* (px, py) is in the closed box b = <<xmin, ymin, xmax, ymax>>
InClosedBox(px, py, b) ==
    /\ Le(I(b[1]), px) /\ Le(px, I(b[3]))
    /\ Le(I(b[2]), py) /\ Le(py, I(b[4]))

\* (b - a) x (p - a) for integer points a, b and the rational point p
Cross(ax, ay, bx, by, px, py) ==
    Sub(Mul(I(bx - ax), Sub(py, I(ay))), Mul(I(by - ay), Sub(px, I(ax))))

IMin(a, b) == IF a < b THEN a ELSE b

IMax(a, b) == IF a < b THEN b ELSE a

\* (px, py) is a point of the segment g = <<x1, y1, x2, y2>>
OnSegment(px, py, g) ==
    /\ IsZero(Cross(g[1], g[2], g[3], g[4], px, py))
    /\ Le(I(IMin(g[1], g[3])), px) /\ Le(px, I(IMax(g[1], g[3])))
    /\ Le(I(IMin(g[2], g[4])), py) /\ Le(py, I(IMax(g[2], g[4])))

\* the segment g has a point in the closed box b: their extents overlap on
\* both axes and the corners of b are not all strictly on one side of g
Meets(g, b) ==
    LET cs == {Cross(g[1], g[2], g[3], g[4], I(c[1]), I(c[2])) :
                  c \in {<<b[1], b[2]>>, <<b[1], b[4]>>, <<b[3], b[2]>>, <<b[3], b[4]>>}}
    IN  /\ IMax(g[1], g[3]) >= b[1] /\ IMin(g[1], g[3]) <= b[3]
        /\ IMax(g[2], g[4]) >= b[2] /\ IMin(g[2], g[4]) <= b[4]
        /\ ~(\A c \in cs : Lt(Zero, c))
        /\ ~(\A c \in cs : Lt(c, Zero))

\* C7: for a box with xmin <= xmax and ymin <= ymax, clipline returns None
\* or a segment whose two endpoints are points of the original segment in
\* the closed box; it returns None for a segment with no point in the closed
\* box; for a zero-length segment it returns that point iff the point is in
\* the closed box.
ClipInsideBox ==
    hist.op = "clipline" =>
        LET g == SubSeq(hist.args, 1, 4)
            b == SubSeq(hist.args, 5, 8)
            r == hist.ret
        IN  /\ r # NoSegment =>
                  /\ OnSegment(r[1], r[2], g) /\ InClosedBox(r[1], r[2], b)
                  /\ OnSegment(r[3], r[4], g) /\ InClosedBox(r[3], r[4], b)
            /\ ~Meets(g, b) => r = NoSegment
            /\ (g[1] = g[3] /\ g[2] = g[4]) =>
                  IF InClosedBox(I(g[1]), I(g[2]), b)
                  THEN r = <<I(g[1]), I(g[2]), I(g[1]), I(g[2])>>
                  ELSE r = NoSegment

\* a segment that starts and ends outside the box was cut at both ends
ClippedBothEnds ==
    /\ hist.op = "clipline"
    /\ hist.ret # NoSegment
    /\ ~InClosedBox(I(hist.args[1]), I(hist.args[2]), SubSeq(hist.args, 5, 8))
    /\ ~InClosedBox(I(hist.args[3]), I(hist.args[4]), SubSeq(hist.args, 5, 8))
    /\ <<hist.ret[1], hist.ret[2]>> # <<hist.ret[3], hist.ret[4]>>

\* the points fixPoint is asked to pin: the cursor's center, the origin
PivotPoints(s) == {center(s.cursorBox), Point(Zero, Zero)}

\* fixPoint(px, py, P) from the sheet s pins P at (px, py) and changes only
\* visibleBox's min-corner and the dirty flag
PinsPoint(s, px, py, P) ==
    LET s1 == fixPoint(s, px, py, P)
    IN  /\ s1.exc = NoExc
        /\ IAbs(scaleX(s1, P.x) - round(px)) <= 1
        /\ IAbs(scaleY(s1, P.y) - round(py)) <= 1
        /\ s1 = [s EXCEPT !.visibleBox.xmin = s1.visibleBox.xmin,
                          !.visibleBox.ymin = s1.visibleBox.ymin,
                          !.needsRefresh = TRUE]

\* C8: in every state with initialized bounds, for the pixel positions of
\* the mouse cells and the points of PivotPoints: after fixPoint(px, py, P),
\* scaleX(P.x) is within 1 of px and scaleY(P.y) within 1 of py, and only
\* visibleBox's min-corner and the dirty flag have changed.
FixPointPins ==
    BoundsSet(sheet) =>
        \A m \in MouseCells, P \in PivotPoints(sheet) :
            PinsPoint(sheet, plotterMouseX(m[1]), plotterMouseY(m[2]), P)

\* the box v contains the box b
Contains(v, b) ==
    /\ Le(v.xmin, b.xmin) /\ Le(xmax(b), xmax(v))
    /\ Le(v.ymin, b.ymin) /\ Le(ymax(b), ymax(v))

\* 'zz' has just called zoomTo(box) with a box of positive width and height
ZoomedTo == hist.op = "zz" /\ Lt(Zero, hist.args[1].w) /\ Lt(Zero, hist.args[1].h)

\* zoomTo(box) pinned box's min-corner and set the zoomlevel
ZoomToSets(box, canvasBox) ==
    /\ hist.exc = NoExc
    /\ sheet.visibleBox.xmin = box.xmin
    /\ sheet.visibleBox.ymin = box.ymin
    /\ sheet.zoomlevel = Max(Div(box.w, canvasBox.w), Div(box.h, canvasBox.h))

CursorAtLeastOneChar ==
    BoundsSet(sheet) =>
        /\ Le(canvasCharWidth(sheet), sheet.cursorBox.w)
        /\ Le(canvasCharHeight(sheet), sheet.cursorBox.h)

\* C11: wherever visibleBox is set and the scalers are defined, visibleBox.w
\* is plotviewBox.w / xScaler and visibleBox.h is plotviewBox.h / yScaler
\* for the current zoomlevel and canvasBox.
VisibleBoxDerived ==
    (sheet.visibleBox # None /\ xDivOK(sheet) /\ yDivOK(sheet)) =>
        /\ sheet.visibleBox.w = Div(sheet.plotviewBox.w, xScaler(sheet))
        /\ sheet.visibleBox.h = Div(sheet.plotviewBox.h, yScaler(sheet))

\* the rows stored under the key k = <<y, x, attr>> of the grid
RowsUnder(k) == {sheet.pixels[k][j] : j \in 1..Len(sheet.pixels[k])}

\* the keys of the grid at the pixels of the box, corners included
KeysIn(box) ==
    {k \in DOMAIN sheet.pixels :
        /\ box.xmin[1] <= k[2] /\ k[2] <= xmax(box)[1]
        /\ box.ymin[1] <= k[1] /\ k[1] <= ymax(box)[1]}

\* the rows stored under an enabled attr at a pixel of the box
EnabledRowsIn(box) ==
    UNION {RowsUnder(k) : k \in {kk \in KeysIn(box) : kk[3] \notin sheet.disabledAttrs}}

\* C12: getRowsInside(box), for a box inside the grid, returns each row once,
\* every row stored under an enabled attr at a pixel of the box (corners
\* included), and no other row.
RowsInsideExact ==
    hist.op = "getRowsInside" =>
        /\ hist.exc = NoExc
        /\ {hist.ret[i] : i \in 1..Len(hist.ret)} = EnabledRowsIn(hist.args[1])
        /\ Len(hist.ret) = Cardinality(EnabledRowsIn(hist.args[1]))

\* a row plotted twice in the box is returned once, and a row of the box
\* stored only under a disabled attr is not returned
RowsDedupedAndFiltered ==
    /\ hist.op = "getRowsInside"
    /\ Len(hist.ret) = 1
    /\ Cardinality({k \in KeysIn(hist.args[1]) : hist.ret[1] \in RowsUnder(k)}) >= 2
    /\ \E k \in KeysIn(hist.args[1]) :
          k[3] \in sheet.disabledAttrs /\ \E r \in RowsUnder(k) : r # hist.ret[1]

\* refresh() and draw() as steps; the last conjunct says that the passes
\* still running are canceled and one new pass runs
DrawRefreshStep ==
    /\ hist'.op = "refresh" =>
          /\ sheet' = [sheet EXCEPT !.needsRefresh = TRUE]
          /\ threads' = threads
    /\ (hist'.op = "draw" /\ ~sheet.needsRefresh) =>
          /\ threads' = threads
          /\ sheet'.pixels = sheet.pixels
          /\ sheet'.labels = sheet.labels
          /\ ~sheet'.needsRefresh
    /\ (hist'.op = "draw" /\ sheet.needsRefresh) =>
          /\ ~sheet'.needsRefresh
          /\ sheet'.pixels = NoPixels
          /\ sheet'.labels = <<>>
          /\ Len(threads') = Len(Prune(threads)) + 1
          /\ Alive(threads') = {Len(threads')}

\* C13: refresh() sets the dirty flag and changes nothing else; draw() on a
\* dirty canvas clears the flag, the grid and the label queue and starts
\* one render pass, canceling the pass that is still running; draw() on a
\* clean canvas starts no pass and leaves grid, label queue and flag alone.
DrawRefresh == [][DrawRefreshStep]_vars

\* C14: after reset() the stored primitives, the stored labels, the legend
\* and the key-to-color assignments are empty and the pool of free colors
\* is the whole palette in its order.
ResetClears ==
    hist.op = "reset" =>
        /\ sheet.gridlines = <<>>
        /\ sheet.gridlabels = <<>>
        /\ sheet.legends = <<>>
        /\ DOMAIN sheet.plotAttrs = {}
        /\ sheet.unusedAttrs = Palette

\* the rows stored under attr a at the pixel getPixelAttrMost was asked about
RowsOf(a) == Len(RowsAt(sheet, hist.args[2], hist.args[1], a))

EnabledHere == EnabledAt(sheet, hist.args[2], hist.args[1])

\* C15: getPixelAttrMost(x, y) returns the enabled attr with the most rows
\* at the pixel, the lowest attr id among those that tie, and the none
\* sentinel exactly when the pixel has no enabled attr.
MostPicksLowestOnTie ==
    hist.op = "getPixelAttrMost" =>
        /\ (hist.ret[1] = NoAttr) <=> (EnabledHere = {})
        /\ EnabledHere # {} =>
              /\ hist.ret[1] \in EnabledHere
              /\ \A b \in EnabledHere :
                    \/ RowsOf(b) < RowsOf(hist.ret[1])
                    \/ RowsOf(b) = RowsOf(hist.ret[1]) /\ hist.ret[1] <= b

\* the primitive g intersects the box the newest pass captured
InView(g) ==
    clipline(g[1], g[2], g[3], g[4],
             Newest.xmin, Newest.ymin, Newest.xmax, Newest.ymax) # NoSegment

\* the grid holds an entry of row g[6] under attr g[5]
Contributes(g) ==
    \E k \in DOMAIN sheet.pixels :
        k[3] = g[5] /\ \E j \in 1..Len(sheet.pixels[k]) : sheet.pixels[k][j] = g[6]

\* the grid holds the contribution of every stored primitive in view
GridValid ==
    \A i \in 1..Len(sheet.gridlines) :
        InView(sheet.gridlines[i]) => Contributes(sheet.gridlines[i])

\* a pass has been started, none runs any more and no refresh() is pending
Settled == threads # <<>> /\ Alive(threads) = {} /\ ~sheet.needsRefresh

\* C16: every render pass that is started completes or is canceled by a
\* newer render, and a dirty canvas that is drawn and not refreshed again
\* reaches the Clean state, where the pass has finished and the grid holds
\* every stored primitive that intersects the view.  A pass that has ended
\* takes no further step, so the claim needs that a pass never ends in any
\* other way than completed or canceled, and that the canvas is Clean once
\* its passes have ended.
RenderCompletes ==
    /\ \A i \in 1..Len(threads) : threads[i].status \in {"running", "done", "canceled"}
    /\ Settled => (Newest.status = "done" /\ GridValid)

\* the pixel-space entry of the stored label g = <<x, y, text, attr, row>>
LabelEntry(g) == <<scaleX(sheet, g[1]), scaleY(sheet, g[2]), g[3], g[4]>>

\* the label queue holds the entry of every stored label
LabelsQueued ==
    \A i \in 1..Len(sheet.gridlabels) :
        \E j \in 1..Len(sheet.labels) : sheet.labels[j] = LabelEntry(sheet.gridlabels[i])

\* C17: a render pass over a canvas that has stored labels completes
\* without error, and once it has completed the label queue holds, for
\* every stored label (x, y, text, attr, row), the pixel-space entry
\* (scaleX(x), scaleY(y), text, attr).
LabelPassCompletes ==
    (sheet.gridlabels # <<>> /\ threads # <<>>) =>
        /\ Newest.status # "died"
        /\ Newest.status = "done" => LabelsQueued

\* a step of the foreground: any operation but a step of the render task
\* and the draw() of a dirty canvas
ForegroundStep ==
    /\ hist'.op # "render_async"
    /\ ~(hist'.op = "draw" /\ hist'.args[1])

\* C18: the pixel grid and the label queue are written only by the render
\* task: no foreground operation (plotColor, togglePixelAttrs, setZoom,
\* fixPoint, zoomTo, the cursor commands, draw on a clean canvas) appends
\* to or removes from the pixel grid or the label queue.
ForegroundLeavesGrid ==
    [][ForegroundStep => (sheet'.pixels = sheet.pixels /\ sheet'.labels = sheet.labels)]_vars

\* togglePixelAttrs(attr) as a step: attr changes sides, nothing else of the
\* disabled set, the grid or the stored primitives changes, and a second
\* toggle of the same attr gives back the set before the first
ToggleStep ==
    /\ hist'.op = "togglePixelAttrs" =>
          /\ (hist'.args[1] \in sheet'.disabledAttrs) <=> (hist'.args[1] \notin sheet.disabledAttrs)
          /\ sheet'.disabledAttrs \ {hist'.args[1]} = sheet.disabledAttrs \ {hist'.args[1]}
          /\ sheet'.pixels = sheet.pixels
          /\ sheet'.gridlines = sheet.gridlines
          /\ sheet'.gridlabels = sheet.gridlabels
    /\ (hist.op = "togglePixelAttrs" /\ hist'.op = "togglePixelAttrs"
            /\ hist'.args[1] = hist.args[1]) =>
          sheet'.disabledAttrs = hist.args[2]

\* no pick returns a disabled attr, and every row getRowsInside returns is
\* stored under an enabled attr
PicksSkipDisabled ==
    /\ hist.op \in {"getPixelAttrMost", "getPixelAttrRandom"} =>
          hist.ret[1] \notin sheet.disabledAttrs
    /\ hist.op = "getRowsInside" =>
          \A i \in 1..Len(hist.ret) :
              \E k \in KeysIn(hist.args[1]) :
                  k[3] \notin sheet.disabledAttrs /\ hist.ret[i] \in RowsUnder(k)

\* C19: togglePixelAttrs(attr) flips the membership of attr in the disabled
\* set and leaves every other attr, the pixel grid and the stored
\* primitives unchanged; two consecutive toggles of one attr restore the
\* disabled set; while attr is disabled neither pick returns it and
\* getRowsInside returns no row that is stored only under it.
ToggleDisables == [][ToggleStep]_vars /\ []PicksSkipDisabled

\* the most-common pick passes over a disabled attr that holds more rows
\* than the attr it returns
PickSkippedDisabled ==
    /\ hist.op = "getPixelAttrMost"
    /\ hist.ret[1] # NoAttr
    /\ \E a \in sheet.disabledAttrs : RowsOf(a) > RowsOf(hist.ret[1])

\* the glyphs of the last draw() at the cell (cx, cy)
GlyphsAt(cx, cy) == {g \in hist.ret : g[1] = cy /\ g[2] = cx}

\* the offsets of the 8 sub-pixels of a cell, the k-th being bit k - 1
SubPixels == << <<0, 0>>, <<0, 1>>, <<0, 2>>, <<1, 0>>, <<1, 1>>, <<1, 2>>, <<0, 3>>, <<1, 3>> >>

\* the attr picked at the k-th sub-pixel of the cell
Sampled(cx, cy, k) ==
    getPixelAttr(sheet, cx * 2 + SubPixels[k][1], cy * 4 + SubPixels[k][2])

\* the 8 samples of the cell
Samples(cx, cy) ==
    <<Sampled(cx, cy, 1), Sampled(cx, cy, 2), Sampled(cx, cy, 3), Sampled(cx, cy, 4),
      Sampled(cx, cy, 5), Sampled(cx, cy, 6), Sampled(cx, cy, 7), Sampled(cx, cy, 8)>>

MaskNonzero(b) == \E k \in 1..8 : b[k] # NoAttr

\* the cursor box cur covers the top-left or the bottom-right sub-pixel
Covered(cur, cx, cy) ==
    within(cur, I(cx * 2), I(cy * 4)) \/ within(cur, I(cx * 2 + 1), I(cy * 4 + 3))

\* bit k of the glyph's codepoint above 0x2800 is set iff the k-th
\* sub-pixel has a picked attr
MaskOK(g, b) ==
    /\ g[3] - 10240 \in 0..255
    /\ \A k \in 1..8 : (((g[3] - 10240) \div (2 ^ (k - 1))) % 2 = 1) <=> (b[k] # NoAttr)

SampleCount(b, a) == Cardinality({k \in 1..8 : b[k] = a})

\* c is picked at the cell at least as often as any other attr
MostFrequent(b, c) ==
    /\ c # NoAttr
    /\ SampleCount(b, c) > 0
    /\ \A k \in 1..8 : b[k] # NoAttr => SampleCount(b, b[k]) <= SampleCount(b, c)

\* the glyph's color is a most frequent attr of the cell, highlighted when
\* the cursor box covers the cell
ColorOK(g, b, covered) ==
    IF covered
    THEN \E k \in 1..8 : MostFrequent(b, b[k]) /\ g[4] = colorsUpdate(b[k])
    ELSE MostFrequent(b, g[4])

Drawn == hist.op = "draw" /\ hist.exc = NoExc /\ sheet.plotheight # 0

\* a glyph only on a cell whose mask is nonzero
MaskedCell(gs, b, covered) ==
    /\ Cardinality(gs) <= 1
    /\ MaskNonzero(b) => gs # {}
    /\ \A g \in gs : MaskNonzero(b) /\ MaskOK(g, b) /\ ColorOK(g, b, covered)

\* a glyph on the cells whose mask is nonzero and on those the cursor covers
ShownCell(gs, b, covered) ==
    /\ Cardinality(gs) <= 1
    /\ (MaskNonzero(b) \/ covered) <=> (gs # {})
    /\ \A g \in gs :
          /\ MaskOK(g, b)
          /\ MaskNonzero(b) => ColorOK(g, b, covered)
          /\ ~MaskNonzero(b) => g[4] = colorsUpdate(NoAttr)

ViewOps == {"zz", "-", "+", "_", "BUTTON3_RELEASED", "BUTTON4_PRESSED", "REPORT_MOUSE_POSITION"}

\* an operation of ViewOps that returns leaves the canvas dirty
ViewStep == (hist'.op \in ViewOps /\ hist'.exc = NoExc) => sheet'.needsRefresh

\* the dirty flag is clear, no render runs, and the newest pass has
\* captured the values it renders the grid with
ShownClean ==
    /\ ~sheet.needsRefresh
    /\ threads # <<>>
    /\ Alive(threads) = {}
    /\ Newest.pc # "setZoom"

\* visibleBox's min-corner and the scalers the zoomlevel gives are those the
\* newest pass captured
ViewAsRendered ==
    /\ sheet.visibleBox.xmin = Newest.xmin
    /\ sheet.visibleBox.ymin = Newest.ymin
    /\ xScalerOK(sheet) /\ yScalerOK(sheet)
    /\ xScaler(sheet) = Newest.xfactor
    /\ yScaler(sheet) = Newest.yfactor

\* C21: every operation that changes what the viewport shows (fixPoint,
\* zoomTo, the zoom-in and zoom-out commands of the keyboard and of the
\* scroll wheel, zoom-to-fit) leaves the canvas dirty when it returns, so
\* no sequence of operations ends in a state where visibleBox's min-corner
\* or the zoomlevel differs from the values the grid was rendered with
\* while the dirty flag is clear and no render is running.
ViewChangeLeavesDirty == [][ViewStep]_vars /\ [](ShownClean => ViewAsRendered)

\* a canvas that was zoomed, drawn again and rendered to the end
ZoomedAndRendered ==
    /\ ShownClean
    /\ Newest.status = "done"
    /\ sheet.zoomlevel # One
    /\ sheet.pixels # NoPixels

=============================================================================
